---- MODULE Spec2Model ----
(***************************************************************************)
(* Employee management service: the validation module (validators.py),     *)
(* the persistence gateway over one SQLite table (database.py) and the     *)
(* CRUD service layer (employees_manager.py), with the pagination          *)
(* sanitising of the HTTP boundary (app.py).                               *)
(*                                                                         *)
(* Text is a sequence of one-character strings, so that str.strip() and    *)
(* the email regular expression are computed character by character.       *)
(* A JSON value is a record [t, s, n]: t is its type tag, s its text       *)
(* (for "str"), n its number (for "num").  Floats are modelled by the      *)
(* integers: every numeral used is integer-valued.                         *)
(***************************************************************************)
EXTENDS Integers, Sequences, FiniteSets, TLC

\* ------------------------------------------------------------------ bounds

\* Creates are started only while fewer than MaxId ids have been assigned.
MaxId == 2

\* The store's clock (CURRENT_TIMESTAMP) takes the values 1..MaxClock.
MaxClock == 2

\* ListSpec starts creates only while fewer than MaxSeeded ids are assigned.
MaxSeeded == 4

\* Page sizes asked of the list endpoint range over 0..MaxLimit.
MaxLimit == 2

\* ------------------------------------------------------------- JSON values

Absent == [t |-> "absent", s |-> <<>>, n |-> 0]

Null == [t |-> "null", s |-> <<>>, n |-> 0]

Str(s) == [t |-> "str", s |-> s, n |-> 0]

Num(n) == [t |-> "num", s |-> <<>>, n |-> n]

\* The float NaN, produced by float("nan").
NaN == [t |-> "nan", s |-> <<>>, n |-> 0]

IsStr(v) == v.t = "str"

\* Python truthiness of a value (dict.get of an absent key gives None).
Truthy(v) ==
    CASE v.t = "str" -> v.s # <<>>
      [] v.t = "num" -> v.n # 0
      [] v.t = "nan" -> TRUE
      [] OTHER -> FALSE

\* ------------------------------------------------------------------- text

Whitespace == {" ", "\t", "\n", "\r", "\f"}

Lower == {"a","b","c","d","e","f","g","h","i","j","k","l","m",
          "n","o","p","q","r","s","t","u","v","w","x","y","z"}

Upper == {"A","B","C","D","E","F","G","H","I","J","K","L","M",
          "N","O","P","Q","R","S","T","U","V","W","X","Y","Z"}

Letter == Lower \cup Upper

DigitValue == [c \in {"0","1","2","3","4","5","6","7","8","9"} |->
                 CASE c = "0" -> 0 [] c = "1" -> 1 [] c = "2" -> 2
                   [] c = "3" -> 3 [] c = "4" -> 4 [] c = "5" -> 5
                   [] c = "6" -> 6 [] c = "7" -> 7 [] c = "8" -> 8
                   [] c = "9" -> 9]

Digit == DOMAIN DigitValue

\* [a-zA-Z0-9._%+-]
LocalChar == Letter \cup Digit \cup {".", "_", "%", "+", "-"}

\* [a-zA-Z0-9.-]
DomainChar == Letter \cup Digit \cup {".", "-"}

AllIn(s, lo, hi, class) == \A k \in lo..hi : s[k] \in class

\* str.strip(): the text without its leading and trailing whitespace.
Strip(s) ==
    LET keep == {k \in 1..Len(s) : s[k] \notin Whitespace}
    IN  IF keep = {} THEN <<>>
        ELSE LET lo == CHOOSE k \in keep : \A m \in keep : k <= m
                 hi == CHOOSE k \in keep : \A m \in keep : k >= m
             IN  SubSeq(s, lo, hi)

\* The whole of t is local-part "@" domain "." tld, tld of two letters or more.
MatchesWhole(t) ==
    \E i \in 1..Len(t) : \E j \in 1..Len(t) :
        /\ 1 < i /\ i + 1 < j /\ j + 2 <= Len(t)
        /\ t[i] = "@" /\ t[j] = "."
        /\ AllIn(t, 1, i - 1, LocalChar)
        /\ AllIn(t, i + 1, j - 1, DomainChar)
        /\ AllIn(t, j + 1, Len(t), Letter)

\* re.match(r'^[a-zA-Z0-9._%+-]+@[a-zA-Z0-9.-]+\.[a-zA-Z]{2,}$', s):
\* '$' matches at the end of the text and also just before a final newline.
EmailPatternMatches(s) ==
    \/ MatchesWhole(s)
    \/ /\ Len(s) > 0
       /\ s[Len(s)] = "\n"
       /\ MatchesWhole(SubSeq(s, 1, Len(s) - 1))

RECURSIVE DigitsValue(_)
DigitsValue(s) ==
    IF s = <<>> THEN 0
    ELSE 10 * DigitsValue(SubSeq(s, 1, Len(s) - 1)) + DigitValue[s[Len(s)]]

\* float(v): [ok, nan, n].  Text is stripped, then read as an optionally
\* signed run of digits or as "nan"; anything else is a ValueError, and
\* None is a TypeError.
PyFloat(v) ==
    LET bad == [ok |-> FALSE, nan |-> FALSE, n |-> 0]
        num(k) == [ok |-> TRUE, nan |-> FALSE, n |-> k]
    IN  CASE v.t = "num" -> num(v.n)
          [] v.t = "nan" -> [ok |-> TRUE, nan |-> TRUE, n |-> 0]
          [] v.t = "str" ->
               LET t == Strip(v.s)
                   signed == Len(t) > 0 /\ t[1] \in {"-", "+"}
                   body == IF signed THEN Tail(t) ELSE t
               IN  IF t = <<"n","a","n">> THEN [ok |-> TRUE, nan |-> TRUE, n |-> 0]
                   ELSE IF body # <<>> /\ AllIn(body, 1, Len(body), Digit)
                        THEN num(IF signed /\ t[1] = "-"
                                 THEN 0 - DigitsValue(body) ELSE DigitsValue(body))
                        ELSE bad
          [] OTHER -> bad

\* ------------------------------------------------------------- validators

Fields == {"first_name", "last_name", "email", "position", "salary"}

TextFields == {"first_name", "last_name", "email", "position"}

required_fields ==
    [f \in Fields |->
        CASE f = "first_name" -> "First Name"
          [] f = "last_name" -> "Last Name"
          [] f = "email" -> "Email"
          [] f = "position" -> "Position"
          [] f = "salary" -> "Salary"]

\* No error for a field.
NoError == ""

validate_email(email) ==
    IF ~Truthy(email) \/ ~IsStr(email) THEN "Email is required"
    ELSE IF ~EmailPatternMatches(email.s) THEN "Email format is invalid"
    ELSE NoError

\* validate_salary without its check of the sign.
validate_salary_AnySign(salary) ==
    IF ~PyFloat(salary).ok THEN "Salary must be a valid number" ELSE NoError

validate_salary(salary) ==
    LET f == PyFloat(salary)
    IN  IF ~f.ok THEN "Salary must be a valid number"
        ELSE IF ~f.nan /\ f.n <= 0 THEN "Salary must be greater than 0"
        ELSE NoError

validate_required_field(value, field_name) ==
    IF ~Truthy(value) \/ (IsStr(value) /\ Strip(value.s) = <<>>)
    THEN field_name \o " is required"
    ELSE NoError

\* The errors dict of validate_employee_data: a message per field, NoError
\* where the dict has no entry.
validate_employee_data(data) ==
    [f \in Fields |->
        LET required == validate_required_field(data[f], required_fields[f])
        IN  IF f = "email" /\ data[f] # Absent /\ Truthy(data[f])
               /\ validate_email(data[f]) # NoError
            THEN validate_email(data[f])
            ELSE IF f = "salary" /\ data[f] # Absent /\ data[f] # Null
                    /\ validate_salary(data[f]) # NoError
            THEN validate_salary(data[f])
            ELSE required]

\* The validity test taken as len(errors) >= 0.
is_valid_Always(errors) == \A f \in Fields : errors[f] \in STRING

is_valid(errors) == \A f \in Fields : errors[f] = NoError

\* ------------------------------------------------------------ the table

\* A row of the employees table: text columns hold text, salary a number,
\* created_at the clock value at the insert.  NoRow stands for no row: the
\* clock starts at 1 and ids at 1, so 0 is the id and created_at of no row.
NoRow ==
    [id |-> 0, first_name |-> <<>>, last_name |-> <<>>, email |-> <<>>,
     position |-> <<>>, salary |-> 0, created_at |-> 0]

\* A statement's bound parameters: a value per column, Absent for a column
\* the statement does not name.
NoParams == [f \in Fields |-> Absent]

SetMax(S) == CHOOSE x \in S : \A y \in S : x >= y

\* id INTEGER PRIMARY KEY without AUTOINCREMENT: one more than the largest
\* id in the table.
NextRowid_MaxRowid(rows, seq) == SetMax({0} \cup {r.id : r \in rows}) + 1

\* id INTEGER PRIMARY KEY AUTOINCREMENT: one more than the largest id the
\* table ever held, which the store keeps in sqlite_sequence.
NextRowid(rows, seq) == SetMax({seq} \cup {r.id : r \in rows}) + 1

\* The email column declared without UNIQUE.
UniqueEmailViolated_Unenforced(rows, id, email) == FALSE

\* email TEXT NOT NULL UNIQUE: some row other than `id` holds `email`.
UniqueEmailViolated(rows, id, email) ==
    \E r \in rows : r.id # id /\ r.email = email

\* salary REAL NOT NULL: a NaN is bound as NULL.
NotNullViolated(params) == params["salary"].t \in {"nan", "null"}

\* An UPDATE that sets every text column, the ones not named to empty text.
WithColumns_EveryColumn(r, params) ==
    LET text(f) == params[f].s
    IN  [id |-> r.id,
         first_name |-> text("first_name"),
         last_name |-> text("last_name"),
         email |-> text("email"),
         position |-> text("position"),
         salary |-> IF params["salary"] = Absent THEN r.salary
                    ELSE params["salary"].n,
         created_at |-> r.created_at]

\* The row `r` with the columns named in `params` overwritten.
WithColumns(r, params) ==
    LET text(f, old) == IF params[f] = Absent THEN old ELSE params[f].s
    IN  [id |-> r.id,
         first_name |-> text("first_name", r.first_name),
         last_name |-> text("last_name", r.last_name),
         email |-> text("email", r.email),
         position |-> text("position", r.position),
         salary |-> IF params["salary"] = Absent THEN r.salary
                    ELSE params["salary"].n,
         created_at |-> r.created_at]

\* ---------------------------------------------------------------- gateway

\* The duplicate query comparing the wrong column.
SelectByEmail_WrongColumn(rows, email) == {r \in rows : r.first_name = email}

\* execute_single("SELECT id FROM employees WHERE email = ?"): the rows found.
SelectByEmail(rows, email) == {r \in rows : r.email = email}

\* The duplicate query with "id = ?" for "id != ?".
SelectByEmailExcept_SameId(rows, email, id) ==
    {r \in rows : r.email = email /\ r.id = id}

\* execute_single("SELECT id FROM employees WHERE email = ? AND id != ?").
SelectByEmailExcept(rows, email, id) ==
    {r \in rows : r.email = email /\ r.id # id}

\* execute_single("SELECT * FROM employees WHERE id = ?").
SelectById(rows, id) == {r \in rows : r.id = id}

\* execute_insert: [ok, rows, seq, lastrowid]; a constraint violation raises
\* sqlite3.IntegrityError and writes nothing.
execute_insert(rows, seq, params, now) ==
    LET id == NextRowid(rows, seq)
        row == WithColumns([NoRow EXCEPT !.id = id, !.created_at = now], params)
    IN  IF NotNullViolated(params) \/ UniqueEmailViolated(rows, id, row.email)
        THEN [ok |-> FALSE, rows |-> rows, seq |-> seq, lastrowid |-> 0]
        ELSE [ok |-> TRUE, rows |-> rows \cup {row}, seq |-> id, lastrowid |-> id]

\* execute_update("UPDATE employees SET ... WHERE id = ?"): [ok, rows].
execute_update(rows, params, id) ==
    LET hit == SelectById(rows, id)
        new == {WithColumns(r, params) : r \in hit}
    IN  IF hit # {} /\ \/ (params["salary"] # Absent /\ NotNullViolated(params))
                       \/ \E r \in new : UniqueEmailViolated(rows, id, r.email)
        THEN [ok |-> FALSE, rows |-> rows]
        ELSE [ok |-> TRUE, rows |-> (rows \ hit) \cup new]

\* A delete whose statement matches no row.
execute_delete_NoRow(rows, id) == rows

\* execute_delete("DELETE FROM employees WHERE id = ?").
execute_delete(rows, id) == rows \ SelectById(rows, id)

RECURSIVE SortedById(_)
SortedById(rows) ==
    IF rows = {} THEN <<>>
    ELSE LET first == CHOOSE r \in rows : \A q \in rows : r.id <= q.id
         IN  <<first>> \o SortedById(rows \ {first})

\* The query with the offset taken as a page number.
execute_query_PageNumber(rows, limit, offset) ==
    LET all == SortedById(rows)
        from == offset * limit + 1
        to == IF from + limit - 1 > Len(all) THEN Len(all) ELSE from + limit - 1
    IN  SubSeq(all, from, to)

\* execute_query("SELECT * FROM employees ORDER BY id LIMIT ? OFFSET ?"):
\* a negative LIMIT is no limit, a negative OFFSET is no offset.
execute_query(rows, limit, offset) ==
    LET all == SortedById(rows)
        from == IF offset < 0 THEN 1 ELSE offset + 1
        to == IF limit < 0 \/ from + limit - 1 > Len(all) THEN Len(all)
              ELSE from + limit - 1
    IN  SubSeq(all, from, to)

\* ------------------------------------------------------------------ state

Clients == {1, 2}

VARIABLES
    employees,        \* the rows of the employees table
    sqlite_sequence,  \* the largest id AUTOINCREMENT has assigned
    clock,            \* the store's CURRENT_TIMESTAMP
    pc,               \* per client: where its call stands
    call,             \* per client: the operation called and its arguments
    loc,              \* per client: the call's local variables
    ret               \* per client: what the call returned or raised

vars == <<employees, sqlite_sequence, clock, pc, call, loc, ret>>

NoData == [f \in Fields |-> Absent]

NoCall == [op |-> "none", id |-> 0, data |-> NoData, limit |-> 0, offset |-> 0]

NoLoc == [existing |-> NoRow, params |-> NoParams, employee_id |-> 0]

NoErrors == [f \in Fields |-> NoError]

NoRet == [kind |-> "none", employee |-> NoRow, page |-> <<>>, errors |-> NoErrors]

Init ==
    /\ employees = {}
    /\ sqlite_sequence = 0
    /\ clock = 1
    /\ pc = [p \in Clients |-> "idle"]
    /\ call = [p \in Clients |-> NoCall]
    /\ loc = [p \in Clients |-> NoLoc]
    /\ ret = [p \in Clients |-> NoRet]

\* ---------------------------------------------------------------- service

\* get_employee_by_id: [found, employee]; not found raises NotFoundError.
get_employee_by_id(rows, employee_id) ==
    LET row == SelectById(rows, employee_id)
    IN  [found |-> row # {},
         employee |-> IF row = {} THEN NoRow ELSE CHOOSE r \in row : TRUE]

\* The attribute `f` of an Employee entity, as a value.
Attribute(employee, f) ==
    IF f = "salary" THEN Num(employee.salary) ELSE Str(employee[f])

\* update_data: the request merged over the existing values.
update_data(data, existing) ==
    [f \in Fields |-> IF data[f] # Absent THEN data[f] ELSE Attribute(existing, f)]

\* The exception raised while the statement's parameters are built from the
\* fields present: .strip() of a value that is no text, float() of a value
\* that is no number; NoError when none is.
ConversionError(data) ==
    IF \E f \in TextFields : data[f] # Absent /\ ~IsStr(data[f])
    THEN "AttributeError"
    ELSE IF data["salary"] # Absent /\ ~PyFloat(data["salary"]).ok
    THEN "ValueError"
    ELSE NoError

\* The parameters bound without stripping the text.
StatementParams_Unstripped(data) ==
    [f \in Fields |->
        IF data[f] = Absent THEN Absent
        ELSE IF f = "salary"
             THEN (IF PyFloat(data[f]).nan THEN NaN ELSE Num(PyFloat(data[f]).n))
             ELSE data[f]]

\* The parameters bound for the fields present: text stripped, salary as float.
StatementParams(data) ==
    [f \in Fields |->
        IF data[f] = Absent THEN Absent
        ELSE IF f = "salary"
             THEN (IF PyFloat(data[f]).nan THEN NaN ELSE Num(PyFloat(data[f]).n))
             ELSE Str(Strip(data[f].s))]

\* get_employees_endpoint: a limit below 1 becomes 100, an offset below 0
\* becomes 0.
DefaultLimit == 100

SanitizedLimit(limit) == IF limit < 1 THEN DefaultLimit ELSE limit

SanitizedOffset(offset) == IF offset < 0 THEN 0 ELSE offset

\* get_all_employees(limit, offset).
get_all_employees(rows, limit, offset) == execute_query(rows, limit, offset)

\* ---------------------------------------------------------------- actions

CanCall(p) == pc[p] = "idle"

Raise(kind) == [NoRet EXCEPT !.kind = kind]

Return(employee) == [NoRet EXCEPT !.kind = "ok", !.employee = employee]

\* The call of client p ends with result r.
Finish(p, r) ==
    /\ pc' = [pc EXCEPT ![p] = "done"]
    /\ ret' = [ret EXCEPT ![p] = r]

\* The call of client p goes on at `label`.
Goto(p, label) ==
    /\ pc' = [pc EXCEPT ![p] = label]
    /\ ret' = [ret EXCEPT ![p] = NoRet]

\* create_employee, up to its insert: validation, the duplicate-email
\* query and the building of the insert's parameters.
CreateCheck(p, data) ==
    /\ CanCall(p)
    /\ call' = [call EXCEPT ![p] = [NoCall EXCEPT !.op = "create", !.data = data]]
    /\ LET errors == validate_employee_data(data)
       IN  IF ~is_valid(errors)
           THEN /\ Finish(p, [Raise("ValidationError") EXCEPT !.errors = errors])
                /\ loc' = [loc EXCEPT ![p] = NoLoc]
           ELSE IF SelectByEmail(employees, data["email"].s) # {}
           THEN /\ Finish(p, Raise("UniqueConstraintError"))
                /\ loc' = [loc EXCEPT ![p] = NoLoc]
           ELSE IF ConversionError(data) # NoError
           THEN /\ Finish(p, Raise(ConversionError(data)))
                /\ loc' = [loc EXCEPT ![p] = NoLoc]
           ELSE /\ Goto(p, "create_insert")
                /\ loc' = [loc EXCEPT ![p] =
                             [NoLoc EXCEPT !.params = StatementParams(data)]]
    /\ UNCHANGED <<employees, sqlite_sequence, clock>>

\* create_employee: db.execute_insert.
CreateInsert(p) ==
    /\ pc[p] = "create_insert"
    /\ LET r == execute_insert(employees, sqlite_sequence, loc[p].params, clock)
       IN  /\ employees' = r.rows
           /\ sqlite_sequence' = r.seq
           /\ IF r.ok
              THEN /\ Goto(p, "create_fetch")
                   /\ loc' = [loc EXCEPT ![p].employee_id = r.lastrowid]
              ELSE /\ Finish(p, Raise("IntegrityError"))
                   /\ UNCHANGED loc
    /\ UNCHANGED <<clock, call>>

\* create_employee: return get_employee_by_id(employee_id).
CreateFetch(p) ==
    /\ pc[p] = "create_fetch"
    /\ LET got == get_employee_by_id(employees, loc[p].employee_id)
       IN  Finish(p, IF got.found THEN Return(got.employee)
                     ELSE Raise("NotFoundError"))
    /\ UNCHANGED <<employees, sqlite_sequence, clock, call, loc>>

\* update_employee after its duplicate check: the UPDATE's parameters are
\* built; with no field named no statement is issued.
UpdateBuild(p, data, existing) ==
    IF ConversionError(data) # NoError
    THEN /\ Finish(p, Raise(ConversionError(data)))
         /\ loc' = [loc EXCEPT ![p] = [NoLoc EXCEPT !.existing = existing]]
    ELSE /\ Goto(p, IF StatementParams(data) = NoParams THEN "update_fetch"
                    ELSE "update_write")
         /\ loc' = [loc EXCEPT ![p] = [NoLoc EXCEPT !.existing = existing,
                                        !.params = StatementParams(data)]]

\* update_employee, up to its first statement after the fetch: the fetch of
\* the existing employee, the merge and its validation.
UpdateGet(p, employee_id, data) ==
    /\ CanCall(p)
    /\ call' = [call EXCEPT ![p] =
                  [NoCall EXCEPT !.op = "update", !.id = employee_id, !.data = data]]
    /\ LET got == get_employee_by_id(employees, employee_id)
           errors == validate_employee_data(update_data(data, got.employee))
       IN  IF ~got.found
           THEN /\ Finish(p, Raise("NotFoundError"))
                /\ loc' = [loc EXCEPT ![p] = NoLoc]
           ELSE IF ~is_valid(errors)
           THEN /\ Finish(p, [Raise("ValidationError") EXCEPT !.errors = errors])
                /\ loc' = [loc EXCEPT ![p] = [NoLoc EXCEPT !.existing = got.employee]]
           ELSE IF data["email"] # Absent
                   /\ data["email"] # Attribute(got.employee, "email")
           THEN /\ Goto(p, "update_dup")
                /\ loc' = [loc EXCEPT ![p] = [NoLoc EXCEPT !.existing = got.employee]]
           ELSE UpdateBuild(p, data, got.employee)
    /\ UNCHANGED <<employees, sqlite_sequence, clock>>

\* update_employee: the duplicate-email query.
UpdateDup(p) ==
    /\ pc[p] = "update_dup"
    /\ IF SelectByEmailExcept(employees, call[p].data["email"].s, call[p].id) # {}
       THEN /\ Finish(p, Raise("UniqueConstraintError"))
            /\ UNCHANGED loc
       ELSE UpdateBuild(p, call[p].data, loc[p].existing)
    /\ UNCHANGED <<employees, sqlite_sequence, clock, call>>

\* update_employee: db.execute_update.
UpdateWrite(p) ==
    /\ pc[p] = "update_write"
    /\ LET r == execute_update(employees, loc[p].params, call[p].id)
       IN  /\ employees' = r.rows
           /\ IF r.ok THEN Goto(p, "update_fetch")
              ELSE Finish(p, Raise("IntegrityError"))
    /\ UNCHANGED <<sqlite_sequence, clock, call, loc>>

\* update_employee: return get_employee_by_id(employee_id).
UpdateFetch(p) ==
    /\ pc[p] = "update_fetch"
    /\ LET got == get_employee_by_id(employees, call[p].id)
       IN  Finish(p, IF got.found THEN Return(got.employee)
                     ELSE Raise("NotFoundError"))
    /\ UNCHANGED <<employees, sqlite_sequence, clock, call, loc>>

\* delete_employee: the existence check.
DeleteGet(p, employee_id) ==
    /\ CanCall(p)
    /\ call' = [call EXCEPT ![p] = [NoCall EXCEPT !.op = "delete", !.id = employee_id]]
    /\ LET got == get_employee_by_id(employees, employee_id)
       IN  IF got.found
           THEN /\ Goto(p, "delete_exec")
                /\ loc' = [loc EXCEPT ![p] = [NoLoc EXCEPT !.existing = got.employee]]
           ELSE /\ Finish(p, Raise("NotFoundError"))
                /\ loc' = [loc EXCEPT ![p] = NoLoc]
    /\ UNCHANGED <<employees, sqlite_sequence, clock>>

\* delete_employee: db.execute_delete, then the confirmation naming the
\* employee fetched.
DeleteExec(p) ==
    /\ pc[p] = "delete_exec"
    /\ employees' = execute_delete(employees, call[p].id)
    /\ Finish(p, Return(loc[p].existing))
    /\ UNCHANGED <<sqlite_sequence, clock, call, loc>>

\* A call of get_employee_by_id.
GetEmployee(p, employee_id) ==
    /\ CanCall(p)
    /\ call' = [call EXCEPT ![p] = [NoCall EXCEPT !.op = "get", !.id = employee_id]]
    /\ loc' = [loc EXCEPT ![p] = NoLoc]
    /\ LET got == get_employee_by_id(employees, employee_id)
       IN  Finish(p, IF got.found THEN Return(got.employee)
                     ELSE Raise("NotFoundError"))
    /\ UNCHANGED <<employees, sqlite_sequence, clock>>

\* GET /employees?limit=&offset=: the sanitising, then get_all_employees.
ListEmployees(p, limit, offset) ==
    /\ CanCall(p)
    /\ call' = [call EXCEPT ![p] =
                  [NoCall EXCEPT !.op = "list", !.limit = limit, !.offset = offset]]
    /\ loc' = [loc EXCEPT ![p] = NoLoc]
    /\ Finish(p, [NoRet EXCEPT !.kind = "ok",
                    !.page = get_all_employees(employees, SanitizedLimit(limit),
                                               SanitizedOffset(offset))])
    /\ UNCHANGED <<employees, sqlite_sequence, clock>>

\* The boundary has sent the response of client p's call: the call's
\* arguments, locals and result are gone.
Respond(p) ==
    /\ pc[p] = "done"
    /\ pc' = [pc EXCEPT ![p] = "idle"]
    /\ call' = [call EXCEPT ![p] = NoCall]
    /\ loc' = [loc EXCEPT ![p] = NoLoc]
    /\ ret' = [ret EXCEPT ![p] = NoRet]
    /\ UNCHANGED <<employees, sqlite_sequence, clock>>

\* The store's clock advances.
Tick ==
    /\ clock < MaxClock
    /\ clock' = clock + 1
    /\ UNCHANGED <<employees, sqlite_sequence, pc, call, loc, ret>>

\* ----------------------------------------------------------------- inputs

TextAl == <<"A","l">>

TextLee == <<"L","e","e">>

TextDev == <<"D","e","v">>

TextMgr == <<"M","g","r">>

EmailA == <<"a","@","x",".","c","o">>

EmailB == <<"b","@","x",".","c","o">>

Padded(s) == <<" ">> \o s \o <<" ">>

Blank == <<" "," ">>

\* The bodies posted to create an employee: padded and blank text, a value
\* that is no text, an absent field, a taken or ill-shaped email (one with
\* a final newline), salaries as numbers and as numerals.
CreateRequests ==
    [first_name : {Str(Padded(TextAl)), Str(Blank)},
     last_name : {Absent, Str(TextLee)},
     email : {Str(EmailA), Str(EmailB), Str(EmailA \o <<"\n">>), Str(<<"b","a","d">>)},
     position : {Str(TextDev), Num(7)},
     salary : {Num(50), Str(<<"6","0">>), Num(0 - 5), Str(<<"n","a","n">>)}]

\* The bodies put to update an employee: every subset of the fields named.
UpdateRequests ==
    [first_name : {Absent, Str(Blank)},
     last_name : {Absent, Str(TextLee)},
     email : {Absent, Str(EmailA), Str(EmailB), Str(EmailA \o <<"\n">>),
              Str(<<"b","a","d">>)},
     position : {Absent, Str(Padded(TextMgr)), Num(7)},
     salary : {Absent, Str(<<"6","0">>), Num(0 - 5)}]

Ids == 1..MaxId

Limits == 0..MaxLimit

Offsets == (0 - 1)..MaxId

\* The bodies of the concurrent specification: valid records and updates
\* that contend for two emails.
ConcCreateRequests ==
    [first_name : {Str(TextAl)}, last_name : {Str(TextLee)},
     email : {Str(EmailA), Str(EmailB)},
     position : {Str(TextDev)}, salary : {Num(50)}]

ConcUpdateRequests ==
    [first_name : {Absent}, last_name : {Absent},
     email : {Absent, Str(EmailA), Str(EmailB)},
     position : {Absent}, salary : {Absent, Str(<<"6","0">>)}]

EmailC == <<"c","@","x",".","c","o">>

EmailD == <<"d","@","x",".","c","o">>

\* The employees seeded for listing.
SeedRequests ==
    [first_name : {Str(TextAl)}, last_name : {Str(TextLee)},
     email : {Str(EmailA), Str(EmailB), Str(EmailC), Str(EmailD)},
     position : {Str(TextDev)}, salary : {Num(50)}]

SeedIds == 1..MaxSeeded

SeedOffsets == (0 - 1)..MaxSeeded

\* ---------------------------------------------------------- specifications

\* One client whose calls run one after the other.
Solo == CHOOSE p \in Clients : \A q \in Clients : p <= q

Next ==
    \/ \E data \in CreateRequests :
          sqlite_sequence < MaxId /\ CreateCheck(Solo, data)
    \/ CreateInsert(Solo)
    \/ CreateFetch(Solo)
    \/ \E id \in Ids : \E data \in UpdateRequests : UpdateGet(Solo, id, data)
    \/ UpdateDup(Solo)
    \/ UpdateWrite(Solo)
    \/ UpdateFetch(Solo)
    \/ \E id \in Ids : DeleteGet(Solo, id)
    \/ DeleteExec(Solo)
    \/ \E id \in Ids : GetEmployee(Solo, id)
    \/ \E limit \in Limits : \E offset \in Offsets : ListEmployees(Solo, limit, offset)
    \/ Respond(Solo)
    \/ Tick

Spec == Init /\ [][Next]_vars

\* Clients whose calls interleave at every gateway call.
ConcNext ==
    \E p \in Clients :
        \/ \E data \in ConcCreateRequests :
              sqlite_sequence < MaxId /\ CreateCheck(p, data)
        \/ CreateInsert(p)
        \/ CreateFetch(p)
        \/ \E id \in Ids : \E data \in ConcUpdateRequests : UpdateGet(p, id, data)
        \/ UpdateDup(p)
        \/ UpdateWrite(p)
        \/ UpdateFetch(p)
        \/ \E id \in Ids : DeleteGet(p, id)
        \/ DeleteExec(p)
        \/ Respond(p)

ConcSpec == Init /\ [][ConcNext]_vars

\* One client that seeds employees, deletes some and lists pages.
ListNext ==
    \/ \E data \in SeedRequests :
          sqlite_sequence < MaxSeeded /\ CreateCheck(Solo, data)
    \/ CreateInsert(Solo)
    \/ CreateFetch(Solo)
    \/ \E id \in SeedIds : DeleteGet(Solo, id)
    \/ DeleteExec(Solo)
    \/ \E limit \in Limits : \E offset \in SeedOffsets :
          ListEmployees(Solo, limit, offset)
    \/ Respond(Solo)

ListSpec == Init /\ [][ListNext]_vars

\* A call of validate_employee_data on the record client p holds.
Validate(p) ==
    /\ pc[p] = "idle"
    /\ call[p].op = "validate"
    /\ LET errors == validate_employee_data(call[p].data)
       IN  Finish(p, [NoRet EXCEPT !.kind = IF is_valid(errors) THEN "ok"
                                            ELSE "ValidationError",
                                   !.errors = errors])
    /\ UNCHANGED <<employees, sqlite_sequence, clock, call, loc>>

\* The values a field of a validated record takes: absent, null, empty,
\* whitespace-only, and well-formed.
ValidatedTexts(good) == {Absent, Null, Str(<<>>), Str(Blank), Str(good)}

ValidatedRecords ==
    [first_name : ValidatedTexts(TextAl),
     last_name : ValidatedTexts(TextLee),
     email : ValidatedTexts(EmailA) \cup {Str(<<"b","a","d">>)},
     position : ValidatedTexts(TextDev),
     salary : {Absent, Null, Str(<<>>), Str(Blank), Str(<<"6","0">>), Num(50),
               Num(0), Str(<<"a","b","c">>)}]

\* validate_employee_data applied to each record of ValidatedRecords.
ValidateInit ==
    /\ employees = {}
    /\ sqlite_sequence = 0
    /\ clock = 1
    /\ pc = [p \in Clients |-> "idle"]
    /\ \E data \in ValidatedRecords :
          call = [p \in Clients |->
                    IF p = Solo THEN [NoCall EXCEPT !.op = "validate", !.data = data]
                    ELSE NoCall]
    /\ loc = [p \in Clients |-> NoLoc]
    /\ ret = [p \in Clients |-> NoRet]

ValidateNext == Validate(Solo)

ValidateSpec == ValidateInit /\ [][ValidateNext]_vars

\* Two clients that only create, contending for the same emails.
RaceNext ==
    \E p \in Clients :
        \/ \E data \in ConcCreateRequests :
              sqlite_sequence < MaxId /\ CreateCheck(p, data)
        \/ CreateInsert(p)
        \/ CreateFetch(p)
        \/ Respond(p)

RaceSpec == Init /\ [][RaceNext]_vars

\* ----------------------------------------------------------------- claims

Done(p, op) == pc[p] = "done" /\ call[p].op = op

\* Client p enters a call of `op` in this step.
Enters(p, op) == pc[p] = "idle" /\ pc'[p] # "idle" /\ call'[p].op = op

\* The call entered in this step ends in it, raising `kind`.
RaisesAtOnce(p, kind) == pc'[p] = "done" /\ ret'[p].kind = kind

Emails(rows) == {r.email : r \in rows}

\* C1: in every state reachable by interleaved gateway steps of create,
\* update and delete calls, no two rows of the table hold the same email.
C1_UniqueEmails ==
    \A r \in employees : \A q \in employees : r # q => r.email # q.email

\* Two creates of one email both passed the duplicate query, and the
\* store's constraint refused the second insert.
C1_Witness ==
    /\ Done(1, "create") /\ ret[1].kind = "IntegrityError"
    /\ Done(2, "create") /\ ret[2].kind = "ok"
    /\ call[1].data["email"] = call[2].data["email"]
    /\ Cardinality(employees) = 1

\* C2: a create whose fields pass validation and whose email is held by a
\* row fails with UniqueConstraintError and leaves the rows, and so their
\* count, as they were.
C2_DuplicateCreateRejected ==
    [][(/\ Enters(Solo, "create")
        /\ \A f \in Fields : validate_employee_data(call'[Solo].data)[f] = NoError
        /\ call'[Solo].data["email"].s \in Emails(employees))
       => (/\ RaisesAtOnce(Solo, "UniqueConstraintError")
           /\ employees' = employees
           /\ Cardinality(employees') = Cardinality(employees))]_vars

C2_Witness ==
    /\ Done(Solo, "create")
    /\ ret[Solo].kind = "UniqueConstraintError"
    /\ call[Solo].data["email"].s \in Emails(employees)

\* The stored record of the employee an update addresses, and the other
\* rows holding the email the request carries.
Addressed(p) == get_employee_by_id(employees, call[p].id)

Holders(p) ==
    {b \in employees : /\ b.id # call[p].id
                       /\ call[p].data["email"] = Str(b.email)}

\* The request of client p merged over the record its call fetched.
Candidate(p) ==
    [f \in Fields |-> IF call[p].data[f] # Absent THEN call[p].data[f]
                      ELSE Attribute(loc[p].existing, f)]

HasErrors(data) == \E f \in Fields : validate_employee_data(data)[f] # NoError

\* C3 as claimed: an update of A carrying B's stored email fails with
\* UniqueConstraintError and leaves A's record as it was, whatever other
\* fields the request carries.
C3_AsClaimed ==
    (Done(Solo, "update") /\ Addressed(Solo).found /\ Holders(Solo) # {})
    => (/\ ret[Solo].kind = "UniqueConstraintError"
        /\ Addressed(Solo).employee = loc[Solo].existing)

\* C3, amended: such an update fails with UniqueConstraintError when the
\* merged candidate record passes validation and with ValidationError when
\* it does not; either way A's record is as it was.
C3_UpdateConflict ==
    (Done(Solo, "update") /\ Addressed(Solo).found /\ Holders(Solo) # {})
    => (/\ ret[Solo].kind = IF HasErrors(Candidate(Solo)) THEN "ValidationError"
                            ELSE "UniqueConstraintError"
        /\ Addressed(Solo).employee = loc[Solo].existing)

\* The conflicting update carries another field, one no text, and is
\* refused for the email.
C3_Witness ==
    /\ Done(Solo, "update") /\ Addressed(Solo).found /\ Holders(Solo) # {}
    /\ ret[Solo].kind = "UniqueConstraintError"
    /\ call[Solo].data["position"] = Num(7)

\* C4: when validation fails, in create on the fields given and in update on
\* the request merged over the existing values, the call raises
\* ValidationError with the field errors and the store is left as it was.
C4_ValidationFailureWritesNothing ==
    [][/\ (Enters(Solo, "create") /\ HasErrors(call'[Solo].data))
          => (/\ RaisesAtOnce(Solo, "ValidationError")
              /\ ret'[Solo].errors = validate_employee_data(call'[Solo].data)
              /\ employees' = employees
              /\ sqlite_sequence' = sqlite_sequence)
       /\ (/\ Enters(Solo, "update")
           /\ get_employee_by_id(employees, call'[Solo].id).found
           /\ HasErrors([f \in Fields |->
                 IF call'[Solo].data[f] # Absent THEN call'[Solo].data[f]
                 ELSE Attribute(get_employee_by_id(employees, call'[Solo].id).employee, f)]))
          => (/\ RaisesAtOnce(Solo, "ValidationError")
              /\ \E f \in Fields : ret'[Solo].errors[f] # NoError
              /\ employees' = employees
              /\ sqlite_sequence' = sqlite_sequence)
       /\ (pc'[Solo] = "done" /\ ret'[Solo].kind = "ValidationError")
          => employees' = employees]_vars

\* An update naming only a salary fails validation on that salary.
C4_Witness ==
    /\ Done(Solo, "update")
    /\ ret[Solo].kind = "ValidationError"
    /\ ret[Solo].errors["salary"] = "Salary must be greater than 0"
    /\ call[Solo].data["email"] = Absent
    /\ Addressed(Solo).employee = loc[Solo].existing

\* C5: every row satisfies the validation rules as stored: the four text
\* columns are non-empty after trimming, email has the required shape and
\* salary is greater than zero.
C5_RowsValid ==
    \A r \in employees :
        /\ \A f \in TextFields : Strip(r[f]) # <<>>
        /\ MatchesWhole(r.email)
        /\ r.salary > 0

\* Two rows, one of them written by an update.
C5_Witness ==
    /\ Done(Solo, "update") /\ ret[Solo].kind = "ok"
    /\ Cardinality(employees) = 2
    /\ ret[Solo].employee # loc[Solo].existing

IdsOf(rows) == {r.id : r \in rows}

\* C6: a successful update changes, in the record it addresses, only the
\* fields its request names: the omitted fields, id and created_at keep
\* their values, the other records are untouched, and a request naming no
\* field issues no UPDATE and returns the entity as it was.
C6_UpdateFrame ==
    /\ [](/\ (Done(Solo, "update") /\ ret[Solo].kind = "ok")
             => (/\ Addressed(Solo).found
                 /\ ret[Solo].employee = Addressed(Solo).employee
                 /\ ret[Solo].employee.id = loc[Solo].existing.id
                 /\ ret[Solo].employee.created_at = loc[Solo].existing.created_at
                 /\ \A f \in Fields :
                       call[Solo].data[f] = Absent
                       => ret[Solo].employee[f] = loc[Solo].existing[f]
                 /\ call[Solo].data = NoData
                       => ret[Solo].employee = loc[Solo].existing)
          /\ (pc[Solo] = "update_write" => call[Solo].data # NoData))
    /\ [][call'[Solo].op = "update"
          => (/\ IdsOf(employees') = IdsOf(employees)
              /\ \A r \in employees : r.id # call'[Solo].id => r \in employees'
              /\ call'[Solo].data = NoData => employees' = employees)]_vars

\* Only position was named, and only position changed, beside another row.
C6_Witness ==
    /\ Done(Solo, "update") /\ ret[Solo].kind = "ok"
    /\ \A f \in Fields : call[Solo].data[f] # Absent <=> f = "position"
    /\ ret[Solo].employee.position = TextMgr
    /\ loc[Solo].existing.position = TextDev
    /\ Cardinality(employees) = 2

\* C7: after a successful delete of an id, get_employee_by_id of it raises
\* NotFoundError then and after every later operation; deleting an id that
\* is not persisted raises NotFoundError and leaves the store as it was.
C7_DeletedStaysGone ==
    /\ []((Done(Solo, "delete") /\ ret[Solo].kind = "ok")
             => ~Addressed(Solo).found)
    /\ [][/\ \A id \in 1..sqlite_sequence :
                ~get_employee_by_id(employees, id).found
                => ~get_employee_by_id(employees', id).found
          /\ (Enters(Solo, "get")
              /\ ~get_employee_by_id(employees, call'[Solo].id).found)
             => RaisesAtOnce(Solo, "NotFoundError")
          /\ (Enters(Solo, "delete")
              /\ ~get_employee_by_id(employees, call'[Solo].id).found)
             => (/\ RaisesAtOnce(Solo, "NotFoundError")
                 /\ employees' = employees
                 /\ sqlite_sequence' = sqlite_sequence)]_vars

\* Employee 1 was deleted, another was created since, and a get of 1 fails.
C7_Witness ==
    /\ Done(Solo, "get") /\ call[Solo].id = 1
    /\ ret[Solo].kind = "NotFoundError"
    /\ sqlite_sequence = 2
    /\ IdsOf(employees) = {2}

C9_IdsNeverReused ==
    /\ [](/\ \A r \in employees : r.id >= 1 /\ r.id <= sqlite_sequence
          /\ \A r \in employees : \A q \in employees : r.id = q.id => r = q
          /\ (Done(Solo, "create") /\ ret[Solo].kind = "ok")
                => ret[Solo].employee.id = loc[Solo].employee_id)
    /\ [][/\ \A id \in IdsOf(employees') \ IdsOf(employees) :
                /\ id > sqlite_sequence
                /\ IdsOf(employees') = IdsOf(employees) \cup {id}
                /\ loc'[Solo].employee_id = id
          /\ sqlite_sequence' >= sqlite_sequence]_vars

\* Employee 1 was deleted and the next create was given id 2.
C9_Witness ==
    /\ Done(Solo, "create") /\ ret[Solo].kind = "ok"
    /\ ret[Solo].employee.id = 2
    /\ IdsOf(employees) = {2}

\* The number of rows before r in the ascending-id ordering.
Rank(r) == Cardinality({q \in employees : q.id < r.id})

Range(seq) == {seq[k] : k \in 1..Len(seq)}

\* The rows at positions offset .. offset+limit-1 of that ordering.
Window(limit, offset) ==
    {r \in employees : offset <= Rank(r) /\ Rank(r) < offset + limit}

Ascending(seq) == \A j \in 1..Len(seq) : \A k \in 1..Len(seq) :
                     j < k => seq[j].id < seq[k].id

\* C10: get_all_employees(limit, offset) returns the employees at positions
\* offset .. offset+limit-1 of the ascending-id ordering, in that order, so
\* for every limit >= 1 the pages at offsets 0, limit, 2*limit, ... are
\* pairwise disjoint and together hold every employee exactly once; the
\* list endpoint returns that page.
C10_Pages ==
    /\ \A limit \in 1..MaxLimit : \A offset \in 0..MaxSeeded :
          LET page == get_all_employees(employees, limit, offset)
          IN  /\ Ascending(page)
              /\ Range(page) = Window(limit, offset)
    /\ \A limit \in 1..MaxLimit :
          LET page(k) == get_all_employees(employees, limit, k * limit)
          IN  /\ \A j \in 0..MaxSeeded : \A k \in 0..MaxSeeded :
                    j # k => Range(page(j)) \cap Range(page(k)) = {}
              /\ UNION {Range(page(k)) : k \in 0..MaxSeeded} = employees
    /\ (Done(Solo, "list") /\ call[Solo].limit >= 1 /\ call[Solo].offset >= 0)
          => /\ Ascending(ret[Solo].page)
             /\ Range(ret[Solo].page) = Window(call[Solo].limit, call[Solo].offset)

\* Four employees; the second page of two was listed.
C10_Witness ==
    /\ Done(Solo, "list") /\ call[Solo].limit = 2 /\ call[Solo].offset = 2
    /\ Len(ret[Solo].page) = 2

\* The field is absent or blank: empty or whitespace-only text.
AbsentOrBlank(v) == v = Absent \/ (IsStr(v) /\ Strip(v.s) = <<>>)

\* C11: for each of the five required fields, if the field is absent or
\* blank (empty or whitespace-only text), validate_employee_data returns
\* ok = false with that field's message "<Label> is required"; a blank
\* email never gets the shape message in its place.
C11_AsClaimed ==
    Done(Solo, "validate")
    => \A f \in Fields :
          AbsentOrBlank(call[Solo].data[f])
          => /\ ret[Solo].kind = "ValidationError"
             /\ ret[Solo].errors[f] = required_fields[f] \o " is required"

\* The create call of client p passed the duplicate-email query and reached
\* its insert.
ReachedInsert(p) == call[p].op = "create" /\ loc[p].params # NoParams

\* The insert of client p has been executed.
InsertDone(p) == ReachedInsert(p) /\ pc[p] # "create_insert"

\* The insert of client p stored a row.
InsertSucceeded(p) == InsertDone(p) /\ loc[p].employee_id # 0

\* The rows holding the email client p inserts.
RowsOfInsert(p) == {r \in employees : Str(r.email) = loc[p].params["email"]}

\* Two create calls of one email that both passed the duplicate query.
Raced(p, q) ==
    /\ p # q
    /\ ReachedInsert(p) /\ ReachedInsert(q)
    /\ loc[p].params["email"] = loc[q].params["email"]

\* C12: when two create_employee calls of one valid, unused email both run
\* the duplicate query before either inserts, exactly one insert stores a
\* row; the other call fails at the store's unique constraint with the
\* generic IntegrityError, not UniqueConstraintError; and at no time does
\* more than one row hold that email.
C12_RaceOutcome ==
    \A p \in Clients : \A q \in Clients :
        Raced(p, q)
        => /\ Cardinality(RowsOfInsert(p)) <= 1
           /\ (~InsertDone(p) /\ ~InsertDone(q)) => RowsOfInsert(p) = {}
           /\ (InsertDone(p) /\ ~InsertDone(q)) => InsertSucceeded(p)
           /\ (InsertDone(p) /\ InsertDone(q))
              => \E w \in {p, q} : \E l \in {p, q} \ {w} :
                    /\ InsertSucceeded(w)
                    /\ ret[w].kind \in {"none", "ok"}
                    /\ RowsOfInsert(w) = {r \in employees : r.id = loc[w].employee_id}
                    /\ ~InsertSucceeded(l)
                    /\ pc[l] = "done"
                    /\ ret[l].kind = "IntegrityError"

\* Both creates passed the duplicate query; the first client's insert stored
\* the only row and the second client's insert was refused by the store.
C12_Witness ==
    /\ Raced(1, 2)
    /\ Done(1, "create") /\ ret[1].kind = "ok"
    /\ Done(2, "create") /\ ret[2].kind = "IntegrityError"
    /\ Cardinality(RowsOfInsert(2)) = 1
    /\ ret[1].employee \in RowsOfInsert(2)

====
